---- MODULE Spec2Model ----
(***************************************************************************)
(* Model of the RISC-V interrupt-controller layer: the hart-local (CLIC)   *)
(* register block of src/peripheral/clic.rs and src/peripheral.rs, and the *)
(* mcause / mtvec / mtvt control-and-status registers of src/register.     *)
(*                                                                         *)
(* Memory-mapped bytes (u8) are naturals in 0..255.  Machine words (usize) *)
(* are sets of bit positions in 0..XLEN-1, so that masks, shifts and the   *)
(* most-significant bit keep their exact width.                            *)
(***************************************************************************)
EXTENDS Integers, FiniteSets, Sequences, TLC

VARIABLES
    mem,      \* hart-local register block: byte address -> u8
    hart0,    \* the HartLocal handle built by HartLocal::new, or NoHandle
    call,     \* the most recent controller call: [op, interrupt, arg, val]
    feature,  \* TRUE when built with feature "clic-sifive"
    mcause,   \* the Mcause value last read from CSR 0x342: [bits]
    result,   \* the most recent decode call on mcause: [op, val]
    mtvec,    \* CSR 0x305
    mtvt,     \* CSR 0x307
    wr        \* the most recent write call of each vector register

clicVars == <<mem, hart0, call>>
tvecVars == <<mtvec, mtvt, wr>>
csrVars == <<feature, mcause, result, mtvec, mtvt, wr>>
vars == <<mem, hart0, call, feature, mcause, result, mtvec, mtvt, wr>>

\* the write-call records before any write
NoMtvecWrite == [called |-> FALSE, addr |-> {}, mode |-> "Direct",
                 panicked |-> FALSE]
NoMtvtWrite == [called |-> FALSE, addr |-> {}]

(***************************************************************************)
(* u8 arithmetic                                                           *)
(***************************************************************************)
Pow2(n) == 2 ^ n

\* x & m on u8, m a mask of the form 2^k - 1
And8Low(x, k) == x % Pow2(k)

\* x << n on u8 (bits shifted out of the byte are lost)
Shl8(x, n) == (x * Pow2(n)) % 256

\* x >> n on u8
Shr8(x, n) == x \div Pow2(n)

(***************************************************************************)
(* Interrupt identifiers: trait InterruptNumber.  The enumeration itself   *)
(* is supplied by the platform; the model uses one with the two software-  *)
(* pendable lines and the highest allowed number.                          *)
(***************************************************************************)
MAX_INTERRUPT_NUMBER == 256

Interrupts == {"MachineSoft", "ClicSoft", "Highest"}

number(interrupt) ==
    CASE interrupt = "MachineSoft" -> 3
      [] interrupt = "ClicSoft" -> 12
      [] interrupt = "Highest" -> MAX_INTERRUPT_NUMBER

\* preemption levels passed to set_level (u8)
Levels == {4, 20, 255}

(***************************************************************************)
(* HartLocal: the four region pointers                                     *)
(***************************************************************************)
NoHandle == [interrupt_pending |-> -1, interrupt_enabled |-> -1,
             interrupt_config |-> -1, config |-> -1]

\* HartLocal::new with the config region placed on the enable region
HartLocalNew_overlap(address) ==
    [interrupt_pending |-> address,
     interrupt_enabled |-> address + 1024,
     interrupt_config  |-> address + 1024,
     config            |-> address + 3072]

\* HartLocal::new(address)
HartLocalNew(address) ==
    [interrupt_pending |-> address,
     interrupt_enabled |-> address + 1024,
     interrupt_config  |-> address + 2048,
     config            |-> address + 3072]

\* base address of the hart0 block (const HART / argument hart0)
HART == 0

\* the cells of the block that the platform's interrupts select
Cells ==
    LET h == HartLocalNew(HART) IN
    {b + number(i) : b \in {h.interrupt_pending, h.interrupt_enabled,
                            h.interrupt_config}, i \in Interrupts}
        \cup {h.config}

\* values the global config register may hold before construction
PriorCfg == {0, 1, 255}

(***************************************************************************)
(* HartLocal operations, as functions of the memory m                      *)
(***************************************************************************)
\* mask writing "enabled" instead of "disabled"
mask_enables(m, self, interrupt) ==
    LET nr == number(interrupt) IN
    [m EXCEPT ![self.interrupt_enabled + nr] = 1]

mask(m, self, interrupt) ==
    LET nr == number(interrupt) IN
    [m EXCEPT ![self.interrupt_enabled + nr] = 0]

unmask(m, self, interrupt) ==
    LET nr == number(interrupt) IN
    [m EXCEPT ![self.interrupt_enabled + nr] = 1]

is_enabled(m, self, interrupt) ==
    LET nr == number(interrupt) IN
    m[self.interrupt_enabled + nr] # 0

\* pend without the restriction to the software-pendable lines
pend_any(m, self, interrupt) ==
    LET nr == number(interrupt) IN
    [m EXCEPT ![self.interrupt_pending + nr] = 1]

pend(m, self, interrupt) ==
    LET nr == number(interrupt) IN
    IF nr \in {3, 12}
    THEN [m EXCEPT ![self.interrupt_pending + nr] = 1]
    ELSE m

unpend(m, self, interrupt) ==
    LET nr == number(interrupt) IN
    IF nr \in {3, 12}
    THEN [m EXCEPT ![self.interrupt_pending + nr] = 0]
    ELSE m

is_pending(m, self, interrupt) ==
    LET nr == number(interrupt) IN
    m[self.interrupt_pending + nr] # 0

\* set_level storing the level in the low half of the config byte
set_level_unshifted(m, self, interrupt, level) ==
    LET nr == number(interrupt) IN
    [m EXCEPT ![self.interrupt_config + nr] = And8Low(level, 4)]

set_level(m, self, interrupt, level) ==
    LET nr == number(interrupt) IN
    [m EXCEPT ![self.interrupt_config + nr] = Shl8(And8Low(level, 4), 4)]

get_level(m, self, interrupt) ==
    LET nr == number(interrupt) IN
    Shr8(m[self.interrupt_config + nr], 4)

\* CLIC::<SHARED, HART>::new of peripheral.rs: clic_cfg.write(4 << 1)
CLIC_new(m) ==
    [m EXCEPT ![HartLocalNew(HART).config] = Shl8(4, 1)]

\* CLIC::new(shared, hart0) of peripheral/clic.rs: builds the pointers only
CLIC_new_runtime(m) == m

(***************************************************************************)
(* Controller actions                                                      *)
(***************************************************************************)
NoArg == -1
NoInterrupt == "none"
Call(op, interrupt, arg, val) ==
    [op |-> op, interrupt |-> interrupt, arg |-> arg, val |-> val]

InitClic ==
    /\ \E c \in PriorCfg :
          mem = [a \in Cells |-> IF a = HartLocalNew(HART).config THEN c ELSE 0]
    /\ hart0 = NoHandle
    /\ call = Call("none", NoInterrupt, NoArg, NoArg)

NewGeneric ==
    /\ mem' = CLIC_new(mem)
    /\ call' = Call("CLIC::new", NoInterrupt, NoArg, NoArg)
    /\ UNCHANGED <<hart0, csrVars>>

NewRuntime ==
    /\ mem' = CLIC_new_runtime(mem)
    /\ hart0' = HartLocalNew(HART)
    /\ call' = Call("HartLocal::new", NoInterrupt, NoArg, NoArg)
    /\ UNCHANGED csrVars

DoMask(i) ==
    /\ hart0 # NoHandle
    /\ mem' = mask(mem, hart0, i)
    /\ call' = Call("mask", i, NoArg, NoArg)
    /\ UNCHANGED <<hart0, csrVars>>

DoUnmask(i) ==
    /\ hart0 # NoHandle
    /\ mem' = unmask(mem, hart0, i)
    /\ call' = Call("unmask", i, NoArg, NoArg)
    /\ UNCHANGED <<hart0, csrVars>>

DoIsEnabled(i) ==
    /\ hart0 # NoHandle
    /\ call' = Call("is_enabled", i, NoArg, is_enabled(mem, hart0, i))
    /\ UNCHANGED <<mem, hart0, csrVars>>

DoPend(i) ==
    /\ hart0 # NoHandle
    /\ mem' = pend(mem, hart0, i)
    /\ call' = Call("pend", i, NoArg, NoArg)
    /\ UNCHANGED <<hart0, csrVars>>

DoUnpend(i) ==
    /\ hart0 # NoHandle
    /\ mem' = unpend(mem, hart0, i)
    /\ call' = Call("unpend", i, NoArg, NoArg)
    /\ UNCHANGED <<hart0, csrVars>>

DoIsPending(i) ==
    /\ hart0 # NoHandle
    /\ call' = Call("is_pending", i, NoArg, is_pending(mem, hart0, i))
    /\ UNCHANGED <<mem, hart0, csrVars>>

DoSetLevel(i, level) ==
    /\ hart0 # NoHandle
    /\ mem' = set_level(mem, hart0, i, level)
    /\ call' = Call("set_level", i, level, NoArg)
    /\ UNCHANGED <<hart0, csrVars>>

DoGetLevel(i) ==
    /\ hart0 # NoHandle
    /\ call' = Call("get_level", i, NoArg, get_level(mem, hart0, i))
    /\ UNCHANGED <<mem, hart0, csrVars>>

NextClic ==
    \/ NewGeneric
    \/ NewRuntime
    \/ \E i \in Interrupts : DoMask(i)
    \/ \E i \in Interrupts : DoUnmask(i)
    \/ \E i \in Interrupts : DoIsEnabled(i)
    \/ \E i \in Interrupts : DoPend(i)
    \/ \E i \in Interrupts : DoUnpend(i)
    \/ \E i \in Interrupts : DoIsPending(i)
    \/ \E i \in Interrupts : \E level \in Levels : DoSetLevel(i, level)
    \/ \E i \in Interrupts : DoGetLevel(i)

Init ==
    /\ InitClic
    /\ feature = TRUE
    /\ mcause = [bits |-> {}]
    /\ result = [op |-> "none", val |-> "none"]
    /\ mtvec = {}
    /\ mtvt = {}
    /\ wr = [mtvec |-> NoMtvecWrite, mtvt |-> NoMtvtWrite]

Spec == Init /\ [][NextClic]_vars

(***************************************************************************)
(* Machine words (usize) as sets of bit positions                          *)
(***************************************************************************)
\* target_pointer_width
XLEN == 32

MSB == XLEN - 1

\* the value of a word whose most-significant bit is clear
RECURSIVE ToNat(_)
ToNat(w) ==
    IF w = {} THEN 0
    ELSE LET i == CHOOSE x \in w : TRUE IN Pow2(i) + ToNat(w \ {i})

\* the word of a value below 2^(XLEN-1)
FromNat(n) == {i \in 0..(MSB - 1) : (n \div Pow2(i)) % 2 = 1}

BitOf(w, i) == IF i \in w THEN 1 ELSE 0

\* the bits of w at position i and above
From(w, i) == {j \in w : j >= i}

\* a + b on usize, from bit i up with carry c: the sum modulo 2^XLEN and
\* the carry out of the most-significant bit.  Once b has no bit left and
\* there is no carry, the remaining bits of the sum are those of a.
RECURSIVE AddFrom(_, _, _, _)
AddFrom(a, b, i, c) ==
    IF i = XLEN THEN [sum |-> {}, carry |-> c]
    ELSE IF c = 0 /\ From(b, i) = {} THEN [sum |-> From(a, i), carry |-> 0]
    ELSE LET t == BitOf(a, i) + BitOf(b, i) + c
             rest == AddFrom(a, b, i + 1, t \div 2)
         IN  [sum |-> (IF t % 2 = 1 THEN {i} ELSE {}) \cup rest.sum,
              carry |-> rest.carry]

Add(a, b) == AddFrom(a, b, 0, 0)

\* a - b on usize, from bit i up with borrow c: the difference modulo
\* 2^XLEN and the borrow out of the most-significant bit
RECURSIVE SubFrom(_, _, _, _)
SubFrom(a, b, i, c) ==
    IF i = XLEN THEN [diff |-> {}, borrow |-> c]
    ELSE IF c = 0 /\ From(b, i) = {} THEN [diff |-> From(a, i), borrow |-> 0]
    ELSE LET t == BitOf(a, i) - BitOf(b, i) - c
             rest == SubFrom(a, b, i + 1, IF t < 0 THEN 1 ELSE 0)
         IN  [diff |-> (IF t % 2 = 1 THEN {i} ELSE {}) \cup rest.diff,
              borrow |-> rest.borrow]

Sub(a, b) == SubFrom(a, b, 0, 0)

\* BitField::get_bits(lo..hi)
get_bits(w, lo, hi) == ToNat({i - lo : i \in w \cap (lo..(hi - 1))})

\* BitField::get_bit(i)
get_bit(w, i) == i \in w

(***************************************************************************)
(* mcause                                                                  *)
(***************************************************************************)
\* Interrupt::from with a machine-only table
InterruptFrom_flat(nr) ==
    CASE nr = 3 -> "MachineSoft"
      [] nr = 7 -> "MachineTimer"
      [] nr = 11 -> "MachineExternal"
      [] OTHER -> "Unknown"

\* Interrupt::from
InterruptFrom(nr) ==
    CASE nr = 0 -> "UserSoft"
      [] nr = 1 -> "SupervisorSoft"
      [] nr = 3 -> "MachineSoft"
      [] nr = 4 -> "UserTimer"
      [] nr = 5 -> "SupervisorTimer"
      [] nr = 7 -> "MachineTimer"
      [] nr = 8 -> "UserExternal"
      [] nr = 9 -> "SupervisorExternal"
      [] nr = 11 -> "MachineExternal"
      [] OTHER -> "Unknown"

\* Exception::from
ExceptionFrom(nr) ==
    CASE nr = 0 -> "InstructionMisaligned"
      [] nr = 1 -> "InstructionFault"
      [] nr = 2 -> "IllegalInstruction"
      [] nr = 3 -> "Breakpoint"
      [] nr = 4 -> "LoadMisaligned"
      [] nr = 5 -> "LoadFault"
      [] nr = 6 -> "StoreMisaligned"
      [] nr = 7 -> "StoreFault"
      [] nr = 8 -> "UserEnvCall"
      [] nr = 9 -> "SupervisorEnvCall"
      [] nr = 11 -> "MachineEnvCall"
      [] nr = 12 -> "InstructionPageFault"
      [] nr = 13 -> "LoadPageFault"
      [] nr = 15 -> "StorePageFault"
      [] OTHER -> "Unknown"

Mcause_bits(self) == self.bits

\* Mcause::code: bits & !(1 << (XLEN - 1))
Mcause_code(self) == self.bits \ {MSB}

\* is_interrupt testing the bit below the most-significant one
Mcause_is_interrupt_bit30(self) == (self.bits \cap {MSB - 1}) = {MSB - 1}

\* Mcause::is_interrupt: bits & (1 << (XLEN - 1)) == 1 << (XLEN - 1)
Mcause_is_interrupt(self) == (self.bits \cap {MSB}) = {MSB}

Mcause_is_exception(self) == ~Mcause_is_interrupt(self)

Trap(kind, tag) == [trap |-> kind, tag |-> tag]

Mcause_cause(self) ==
    IF Mcause_is_interrupt(self)
    THEN Trap("Interrupt", InterruptFrom(ToNat(Mcause_code(self))))
    ELSE Trap("Exception", ExceptionFrom(ToNat(Mcause_code(self))))

Mcause_mpie(self) == get_bit(self.bits, 27)

\* Mcause::mpp; "panic" is the unreachable!() arm
Mcause_mpp(self) ==
    LET f == get_bits(self.bits, 28, 30) IN
    CASE f = 0 -> "User"
      [] f = 1 -> "Supervisor"
      [] f = 3 -> "Machine"
      [] OTHER -> "panic"

Mcause_minhv(self) == get_bit(self.bits, 30)

\* number of low code bits enumerated in the cause words
CodeBits == 8

\* cause words read from CSR 0x342: every code below 2^CodeBits with every
\* setting of the interrupt bit and of the bits 27..30
CauseWords ==
    {hi \cup lo : hi \in SUBSET {27, 28, 29, 30, MSB},
                  lo \in SUBSET (0..(CodeBits - 1))}

Result(op, val) == [op |-> op, val |-> val]

\* the controller and the vector registers, left alone by the decoder
IdleClic ==
    /\ mem = [a \in Cells |-> 0]
    /\ hart0 = NoHandle
    /\ call = Call("none", NoInterrupt, NoArg, NoArg)

IdleTvec ==
    /\ mtvec = {}
    /\ mtvt = {}
    /\ wr = [mtvec |-> NoMtvecWrite, mtvt |-> NoMtvtWrite]

InitMcause ==
    /\ feature \in BOOLEAN
    /\ mcause \in [bits : CauseWords]
    /\ result = Result("none", "none")
    /\ IdleClic
    /\ IdleTvec

decodeFrame == <<mcause, feature, clicVars, tvecVars>>

DoBits ==
    /\ result' = Result("bits", Mcause_bits(mcause))
    /\ UNCHANGED decodeFrame

DoCode ==
    /\ result' = Result("code", Mcause_code(mcause))
    /\ UNCHANGED decodeFrame

DoCause ==
    /\ result' = Result("cause", Mcause_cause(mcause))
    /\ UNCHANGED decodeFrame

DoIsInterrupt ==
    /\ result' = Result("is_interrupt", Mcause_is_interrupt(mcause))
    /\ UNCHANGED decodeFrame

DoIsException ==
    /\ result' = Result("is_exception", Mcause_is_exception(mcause))
    /\ UNCHANGED decodeFrame

\* mpie, mpp and minhv exist only with feature "clic-sifive"
DoMpie ==
    /\ feature
    /\ result' = Result("mpie", Mcause_mpie(mcause))
    /\ UNCHANGED decodeFrame

DoMpp ==
    /\ feature
    /\ result' = Result("mpp", Mcause_mpp(mcause))
    /\ UNCHANGED decodeFrame

DoMinhv ==
    /\ feature
    /\ result' = Result("minhv", Mcause_minhv(mcause))
    /\ UNCHANGED decodeFrame

NextMcause ==
    \/ DoBits
    \/ DoCode
    \/ DoCause
    \/ DoIsInterrupt
    \/ DoIsException
    \/ DoMpie
    \/ DoMpp
    \/ DoMinhv

McauseSpec == InitMcause /\ [][NextMcause]_vars

(***************************************************************************)
(* mtvec and mtvt                                                          *)
(***************************************************************************)
\* enum TrapMode; the Clic variants exist only with feature "clic-sifive"
TrapModes ==
    IF feature THEN {"Direct", "Vectored", "ClicDirect", "ClicVectored"}
    ELSE {"Direct", "Vectored"}

\* mode as usize
TrapModeCode(mode) ==
    CASE mode = "Direct" -> 0
      [] mode = "Vectored" -> 1
      [] mode = "ClicDirect" -> 2
      [] mode = "ClicVectored" -> 3

Mtvec_bits(self) == self.bits

\* Mtvec::address: bits - (bits & 0b11)
Mtvec_address(self) == Sub(self.bits, self.bits \cap {0, 1}).diff

\* trap_mode giving the mode codes 2 and 3 tags of their own
Mtvec_trap_mode_distinct(self) ==
    LET mode == ToNat(self.bits \cap {0, 1}) IN
    CASE mode = 0 -> "Direct"
      [] mode = 1 -> "Vectored"
      [] mode = 2 /\ feature -> "ClicDirect"
      [] mode = 3 /\ feature -> "ClicVectored"
      [] OTHER -> "None"

\* Mtvec::trap_mode: Some(tag), or None
Mtvec_trap_mode(self) ==
    LET mode == ToNat(self.bits \cap {0, 1}) IN
    CASE mode = 0 -> "Direct"
      [] mode = 1 -> "Vectored"
      [] mode = 2 /\ feature -> "Direct"
      [] mode = 3 /\ feature -> "Vectored"
      [] OTHER -> "None"

\* mtvec::write: the word addr + mode as usize, and whether the addition
\* overflows usize
mtvec_write(addr, mode) == Add(addr, FromNat(TrapModeCode(mode)))

Mtvt_bits(self) == self.bits

\* Mtvt::address: bits & !0b111111
Mtvt_address(self) == self.bits \ (0..5)

\* mtvt::write storing the address as given
mtvt_write_unmasked(addr) == addr

\* mtvt::write: the word addr & !0b111111
mtvt_write(addr) == addr \ (0..5)

\* the Mtvec / Mtvt value a read of the CSR returns
ReadMtvec == [bits |-> mtvec]
ReadMtvt == [bits |-> mtvt]

\* number of low address bits enumerated in the addresses written
AddrLowBits == 3

AllOnes == 0..MSB

\* addresses passed to the write functions: every setting of the low bits,
\* then 0x40, 0x64, 0x1007, 0x2000, 0xFFFF_FFFF and 0xFFFF_FFFC
TvecAddrs ==
    SUBSET (0..(AddrLowBits - 1))
        \cup {{6}, {6, 5, 2}, {12, 2, 1, 0}, {13}, AllOnes, AllOnes \ {0, 1}}

InitTvec ==
    /\ feature \in BOOLEAN
    /\ mtvec \in SUBSET {0, 1}
    /\ mtvt = {}
    /\ wr = [mtvec |-> NoMtvecWrite, mtvt |-> NoMtvtWrite]
    /\ IdleClic
    /\ mcause = [bits |-> {}]
    /\ result = Result("none", "none")

tvecFrame == <<feature, mcause, result, clicVars>>

\* mtvec::write whose addition does not overflow, or overflows in a build
\* without overflow checks and wraps
WriteMtvec ==
    \E addr \in TvecAddrs : \E mode \in TrapModes :
        LET r == mtvec_write(addr, mode) IN
        /\ mtvec' = r.sum
        /\ wr' = [wr EXCEPT !.mtvec = [called |-> TRUE, addr |-> addr,
                                       mode |-> mode, panicked |-> FALSE]]
        /\ UNCHANGED <<mtvt, tvecFrame>>

\* mtvec::write whose addition overflows in a build with overflow checks:
\* the call panics before the CSR is written
WriteMtvecOverflow ==
    \E addr \in TvecAddrs : \E mode \in TrapModes :
        /\ mtvec_write(addr, mode).carry = 1
        /\ wr' = [wr EXCEPT !.mtvec = [called |-> TRUE, addr |-> addr,
                                       mode |-> mode, panicked |-> TRUE]]
        /\ UNCHANGED <<mtvec, mtvt, tvecFrame>>

WriteMtvt ==
    \E addr \in TvecAddrs :
        /\ mtvt' = mtvt_write(addr)
        /\ wr' = [wr EXCEPT !.mtvt = [called |-> TRUE, addr |-> addr]]
        /\ UNCHANGED <<mtvec, tvecFrame>>

NextTvec ==
    \/ WriteMtvec
    \/ WriteMtvecOverflow
    \/ WriteMtvt

TvecSpec == InitTvec /\ [][NextTvec]_vars

(***************************************************************************)
(* Properties of the hart-local controller (specification Spec)            *)
(***************************************************************************)
Constructed == hart0 # NoHandle

EnableCell(i) == mem[hart0.interrupt_enabled + number(i)]
PendingCell(i) == mem[hart0.interrupt_pending + number(i)]
ConfigCell(i) == mem[hart0.interrupt_config + number(i)]
CfgReg == mem[HartLocalNew(HART).config]

C1_AfterCall ==
    /\ call.op = "mask" => ~is_enabled(mem, hart0, call.interrupt)
    /\ call.op = "unmask" => is_enabled(mem, hart0, call.interrupt)

C1_OnlyMaskUnmask ==
    \A i \in Interrupts :
        (Constructed /\ Constructed') =>
            \/ call'.op \in {"mask", "unmask"} /\ call'.interrupt = i
            \/ is_enabled(mem', hart0', i) = is_enabled(mem, hart0, i)

\* C1: right after mask(id) is_enabled(id) is false and right after
\* unmask(id) it is true; a step that is not a mask/unmask of id leaves
\* is_enabled(id) as it was, so is_enabled(id) always reflects the most
\* recent mask/unmask of that id.
C1_EnableFollowsMaskUnmask == []C1_AfterCall /\ [][C1_OnlyMaskUnmask]_vars

\* mask(ClicSoft) has just acted on an enabled line while another line is
\* enabled and a software interrupt is pending
C1_Witness ==
    /\ call.op = "mask" /\ call.interrupt = "ClicSoft"
    /\ ~is_enabled(mem, hart0, "ClicSoft")
    /\ is_enabled(mem, hart0, "Highest")
    /\ is_pending(mem, hart0, "ClicSoft")
    /\ get_level(mem, hart0, "ClicSoft") = 15

Pendable(i) == number(i) \in {3, 12}

C2_AfterCall ==
    /\ (call.op = "pend" /\ Pendable(call.interrupt))
          => is_pending(mem, hart0, call.interrupt)
    /\ (call.op = "unpend" /\ Pendable(call.interrupt))
          => ~is_pending(mem, hart0, call.interrupt)
    /\ Constructed =>
          \A i \in Interrupts : ~Pendable(i) => ~is_pending(mem, hart0, i)

C2_NoOp ==
    (call'.op \in {"pend", "unpend"} /\ ~Pendable(call'.interrupt))
        => mem' = mem

\* C2: pend on code 3 or 12 makes is_pending true and unpend makes it
\* false; pend/unpend on any other code leave the memory unchanged, and a
\* code other than 3 and 12 is never pending.
C2_PendOnlySoftware == []C2_AfterCall /\ [][C2_NoOp]_vars

\* pend(Highest) has just returned without effect while code 3 is pending
C2_Witness ==
    /\ call.op = "pend" /\ call.interrupt = "Highest"
    /\ ~is_pending(mem, hart0, "Highest")
    /\ is_pending(mem, hart0, "MachineSoft")
    /\ ~is_pending(mem, hart0, "ClicSoft")

\* every u8 value
U8 == 0..255

C3_AfterCall ==
    call.op = "set_level" =>
        /\ get_level(mem, hart0, call.interrupt) = call.arg % 16
        /\ get_level(mem, hart0, call.interrupt) \in 0..15
        /\ ConfigCell(call.interrupt) = (call.arg % 16) * 16
        /\ ConfigCell(call.interrupt) % 16 = 0

C3_EveryLevel ==
    call.op = "HartLocal::new" =>
        \A i \in Interrupts : \A level \in U8 :
            LET m == set_level(mem, hart0, i, level) IN
            /\ get_level(m, hart0, i) = level % 16
            /\ m[hart0.interrupt_config + number(i)] = (level % 16) * 16

\* C3: right after set_level(id, level) the config byte is
\* (level & 0xF) << 4, its low 4 bits are zero, and get_level(id) returns
\* level & 0xF, a value in 0..15; on a freshly built handle this holds of
\* every id and every level in 0..255.
C3_LevelRoundTrip == C3_AfterCall /\ C3_EveryLevel

\* set_level(id, 20) has just acted and get_level(id) is 4
C3_Witness ==
    /\ call.op = "set_level" /\ call.arg = 20
    /\ get_level(mem, hart0, call.interrupt) = 4
    /\ ConfigCell(call.interrupt) = 64

\* C4: after constructing a handle, by either constructor, the global
\* config register holds 4 << 1 whatever it held before.
C4_ConstructionWritesCfg ==
    call.op \in {"CLIC::new", "HartLocal::new"} => CfgReg = 8

Changed == {a \in Cells : mem'[a] # mem[a]}

C10_Frame ==
    Constructed =>
        /\ call'.op \in {"mask", "unmask"} =>
              /\ \A j \in Interrupts \ {call'.interrupt} :
                     EnableCell(j)' = EnableCell(j)
              /\ \A j \in Interrupts :
                     PendingCell(j)' = PendingCell(j)
                     /\ ConfigCell(j)' = ConfigCell(j)
              /\ CfgReg' = CfgReg
        /\ call'.op \in {"pend", "unpend"} =>
              /\ \A j \in Interrupts \ {call'.interrupt} :
                     PendingCell(j)' = PendingCell(j)
              /\ \A j \in Interrupts :
                     EnableCell(j)' = EnableCell(j)
                     /\ ConfigCell(j)' = ConfigCell(j)
              /\ CfgReg' = CfgReg
        /\ call'.op = "set_level" =>
              /\ \A j \in Interrupts \ {call'.interrupt} :
                     ConfigCell(j)' = ConfigCell(j)
              /\ \A j \in Interrupts :
                     EnableCell(j)' = EnableCell(j)
                     /\ PendingCell(j)' = PendingCell(j)
              /\ CfgReg' = CfgReg
        /\ call'.op \in {"is_enabled", "is_pending", "get_level"} =>
              Changed = {}

\* C10: an operation on an id changes at most the cell of its own region
\* selected by that id; the cells of the other ids, the other two regions
\* and the global config register keep their values, and the read
\* operations change no cell.
C10_OperationsDoNotInterfere == [][C10_Frame]_vars

\* set_level has just acted on one id while the enable, pending and global
\* config cells hold values written earlier
C10_Witness ==
    /\ call.op = "set_level" /\ call.interrupt = "Highest" /\ call.arg = 255
    /\ ConfigCell("Highest") = 240
    /\ ConfigCell("MachineSoft") = 64
    /\ EnableCell("Highest") = 1 /\ EnableCell("ClicSoft") = 1
    /\ PendingCell("MachineSoft") = 1
    /\ CfgReg = 8

(***************************************************************************)
(* Properties of the trap-cause decoder (specification McauseSpec)         *)
(***************************************************************************)
\* the cause tables of the privileged architecture, by code
RefInterrupt ==
    [n \in {0, 1, 3, 4, 5, 7, 8, 9, 11} |->
        CASE n = 0 -> "UserSoft" [] n = 1 -> "SupervisorSoft"
          [] n = 3 -> "MachineSoft" [] n = 4 -> "UserTimer"
          [] n = 5 -> "SupervisorTimer" [] n = 7 -> "MachineTimer"
          [] n = 8 -> "UserExternal" [] n = 9 -> "SupervisorExternal"
          [] n = 11 -> "MachineExternal"]

RefException ==
    [n \in (0..9) \cup {11, 12, 13, 15} |->
        CASE n = 0 -> "InstructionMisaligned" [] n = 1 -> "InstructionFault"
          [] n = 2 -> "IllegalInstruction" [] n = 3 -> "Breakpoint"
          [] n = 4 -> "LoadMisaligned" [] n = 5 -> "LoadFault"
          [] n = 6 -> "StoreMisaligned" [] n = 7 -> "StoreFault"
          [] n = 8 -> "UserEnvCall" [] n = 9 -> "SupervisorEnvCall"
          [] n = 11 -> "MachineEnvCall" [] n = 12 -> "InstructionPageFault"
          [] n = 13 -> "LoadPageFault" [] n = 15 -> "StorePageFault"]

Lookup(table, n) == IF n \in DOMAIN table THEN table[n] ELSE "Unknown"

\* the numeric code of the word: its value without the top bit
CodeOf(w) == ToNat(w \ {XLEN - 1})

\* C5: decoding is total and follows the tables: is_interrupt is the top
\* bit, is_exception its negation, code the word without the top bit, and
\* cause the table entry of the code, Unknown where the table has none.
C5_CauseDecoding ==
    LET w == mcause.bits
        top == (XLEN - 1) \in w
    IN  /\ result.op = "is_interrupt" => result.val = top
        /\ result.op = "is_exception" => result.val = ~top
        /\ result.op = "code" =>
              /\ result.val = w \ {XLEN - 1}
              /\ ToNat(result.val) = CodeOf(w)
        /\ result.op = "bits" => result.val = w
        /\ result.op = "cause" =>
              IF top
              THEN result.val =
                      Trap("Interrupt", Lookup(RefInterrupt, CodeOf(w)))
              ELSE result.val =
                      Trap("Exception", Lookup(RefException, CodeOf(w)))
        /\ (result.op = "cause" /\ top /\ CodeOf(w) = 2)
              => result.val = Trap("Interrupt", "Unknown")
        /\ (result.op = "cause" /\ top /\ CodeOf(w) = 7)
              => result.val = Trap("Interrupt", "MachineTimer")

\* cause() has decoded the word with the top bit set and code 7
C5_Witness ==
    /\ mcause.bits = {XLEN - 1, 0, 1, 2}
    /\ result = Result("cause", Trap("Interrupt", "MachineTimer"))

\* C8 as claimed: with the extended controller, interrupt codes other than
\* 3, 7 and 11 decode to Unknown.
C8_FlatInterruptTable ==
    (feature /\ result.op = "cause" /\ (XLEN - 1) \in mcause.bits) =>
        result.val =
            Trap("Interrupt",
                 Lookup([n \in {3, 7, 11} |-> RefInterrupt[n]],
                        CodeOf(mcause.bits)))

\* C8 amended: with the extended controller cause() uses the same tables
\* as without it: codes 3, 7, 11 are the machine software, timer and
\* external interrupts, codes 0, 1, 4, 5, 8, 9 the user and supervisor
\* sources, every other interrupt code Unknown, and exceptions follow the
\* exception table.
C8_SameInterruptTable ==
    (feature /\ result.op = "cause") =>
        LET n == CodeOf(mcause.bits) IN
        IF (XLEN - 1) \in mcause.bits
        THEN /\ result.val.trap = "Interrupt"
             /\ n = 3 => result.val.tag = "MachineSoft"
             /\ n = 7 => result.val.tag = "MachineTimer"
             /\ n = 11 => result.val.tag = "MachineExternal"
             /\ n = 0 => result.val.tag = "UserSoft"
             /\ n = 1 => result.val.tag = "SupervisorSoft"
             /\ n = 4 => result.val.tag = "UserTimer"
             /\ n = 5 => result.val.tag = "SupervisorTimer"
             /\ n = 8 => result.val.tag = "UserExternal"
             /\ n = 9 => result.val.tag = "SupervisorExternal"
             /\ n \notin {0, 1, 3, 4, 5, 7, 8, 9, 11}
                   => result.val.tag = "Unknown"
        ELSE result.val = Trap("Exception", Lookup(RefException, n))

\* with the extended controller, cause() has decoded interrupt code 0
C8_Witness ==
    /\ feature
    /\ mcause.bits = {XLEN - 1}
    /\ result = Result("cause", Trap("Interrupt", "UserSoft"))

\* C9: with the extended controller mpie is bit 27, minhv is bit 30 and
\* mpp returns a privilege mode for every value of bits 28..29.
C9_FieldReadsNeverFail ==
    /\ result.op = "mpie" => result.val = (27 \in mcause.bits)
    /\ result.op = "minhv" => result.val = (30 \in mcause.bits)
    /\ result.op = "mpp" => result.val \in {"User", "Supervisor", "Machine"}

(***************************************************************************)
(* Properties of the vector registers (specification TvecSpec)             *)
(***************************************************************************)
Aligned4(addr) == addr \cap {0, 1} = {}

\* C6: after write(addr, mode) with the low 2 bits of addr zero, address()
\* is addr for every mode and trap_mode() is the mode written for Direct
\* and Vectored; with the extended controller the modes with codes 2 and 3
\* read back as Direct and Vectored.
C6_MtvecRoundTrip ==
    LET w == wr.mtvec IN
    (w.called /\ Aligned4(w.addr)) =>
        /\ ~w.panicked
        /\ Mtvec_address(ReadMtvec) = w.addr
        /\ Mtvec_bits(ReadMtvec) = w.addr \cup FromNat(TrapModeCode(w.mode))
        /\ w.mode = "Direct" => Mtvec_trap_mode(ReadMtvec) = "Direct"
        /\ w.mode = "Vectored" => Mtvec_trap_mode(ReadMtvec) = "Vectored"
        /\ w.mode = "ClicDirect" => Mtvec_trap_mode(ReadMtvec) = "Direct"
        /\ w.mode = "ClicVectored" => Mtvec_trap_mode(ReadMtvec) = "Vectored"

\* write(0x2000, ClicVectored) has acted and reads back 0x2000, Vectored
C6_Witness ==
    /\ wr.mtvec.called /\ wr.mtvec.addr = {13}
    /\ wr.mtvec.mode = "ClicVectored"
    /\ mtvec = {13, 1, 0}
    /\ Mtvec_address(ReadMtvec) = {13}
    /\ Mtvec_trap_mode(ReadMtvec) = "Vectored"

\* C7: after write(addr) the register holds addr with its low 6 bits
\* cleared, address() returns that value, which is addr rounded down to a
\* multiple of 64, and address() equals bits().
C7_MtvtAligned ==
    LET w == wr.mtvt IN
    w.called =>
        /\ mtvt \cap (0..5) = {}
        /\ \A i \in 6..(XLEN - 1) : (i \in mtvt) = (i \in w.addr)
        /\ Mtvt_address(ReadMtvt) = Mtvt_bits(ReadMtvt)
        /\ Mtvt_bits(ReadMtvt) = mtvt
        /\ (XLEN - 1) \notin w.addr =>
              ToNat(Mtvt_address(ReadMtvt)) = (ToNat(w.addr) \div 64) * 64

\* write(0x1007) has acted and address() is 0x1000
C7_Witness ==
    /\ wr.mtvt.called /\ wr.mtvt.addr = {12, 2, 1, 0}
    /\ ToNat(Mtvt_address(ReadMtvt)) = 4096

====
